---- MODULE Spec2Model ----
(***************************************************************************)
(* Model of the csc declaration layer (sdk/python/csc): the process-wide   *)
(* Registry (registry.py), the declaration facade App / route / auth /     *)
(* middleware (app.py) and the resource constructors (resources.py).       *)
(*                                                                         *)
(* Encoding of Python values:                                              *)
(*   - None in a scalar position is the string None == "None";             *)
(*   - None in an object position (an app, a record's "auth") is NoneObj;  *)
(*   - None passed for a list argument is NoneList;                        *)
(*   - an argument left out of a call is Missing;                          *)
(*   - a dict is a function whose domain is its set of keys;               *)
(*   - a callable is named by its identity (functions compare by identity).*)
(***************************************************************************)
EXTENDS FiniteSets, Integers, Sequences, TLC

None == "None"
NoneObj == [none |-> TRUE]
NoneList == <<"None">>
Missing == "<missing>"
NoAttr == [noattr |-> TRUE]

(* ------------------------------ bounds --------------------------------- *)
MaxMiddlewares == 2
MaxLog == 2
MaxEntries == 3

(* ------------------------------ inputs --------------------------------- *)
Funcs == {"f", "g"}
\* (path, method, methods, public) arguments of route(), an argument left out
\* being its default (method=None, methods=None, public=False)
RouteArgs == { <<"/a", None, NoneList, FALSE>>,
               <<"/b", "POST", NoneList, TRUE>>,
               <<"/a", "", NoneList, TRUE>>,
               <<"/b", None, <<>>, FALSE>>,
               <<"/a", "POST", <<"GET", "PUT">>, FALSE>> }
\* (resource, cognito, scopes) argument triples of auth()
AuthArgs == { <<None, None, NoneList>>, <<"users", "True", <<"read">> >> }

\* (name, stage, region) arguments of App(); Missing: argument left out
AppArgs == { <<"test-api", Missing, "us-west-2">>,
             <<"api", "prod", Missing>>,
             <<"api", Missing, Missing>>,
             <<"", Missing, Missing>>,
             <<Missing, Missing, Missing>> }
\* (class, name, option) arguments of a resource constructor; the option is
\* partition_key of Table, retention of LogStream, password_policy of Cognito
ResourceArgs == { <<"Table", "users", "user_id">>,
                  <<"Table", "users", Missing>>,
                  <<"LogStream", "users", Missing>>,
                  <<"Cognito", "users", Missing>>,
                  <<"LogStream", "app-logs", "30d">>,
                  <<"Cognito", "", "weak">>,
                  <<"Table", None, Missing>>,
                  <<"Table", Missing, Missing>> }
\* the declarations of a module that is mostly routes
OneApp == { <<"api", Missing, Missing>> }
OneResource == { <<"Table", "users", Missing>> }
OneFunc == { "f" }

VARIABLES
    app,            \* Registry.app
    resources,      \* Registry.resources: dict name -> resource
    routes,         \* Registry.routes: list of route dicts
    middlewares,    \* Registry.middlewares: list of callables
    csc_metadata,   \* func._csc_metadata of every callable (NoAttr: no attribute)
    raised,         \* exception raised by the last facade call, or None
    routeOrder,     \* history: callables in order of first route() since clear()
    applied,        \* history: kinds of decoration per callable since clear()
    declaredApp,    \* history: arguments of the last App() since clear(), and
                    \*   the name of the application declared before it
    declaredRes,    \* history: per name, arguments of the last resource declared
                    \*   since clear(), and the class of the one declared before it
    declaredMw,     \* history: callables passed to middleware() since clear()
    heldAuth,       \* history: per callable, the descriptor of the last auth() it
                    \*   ever received (NoneObj: none)
    heap,           \* the objects the caller passes to the table, by identity
    data,           \* Table._data: insertion-ordered dict, as <<key, object>> pairs
    result,         \* the last call on the table and what it returned
    putOrder,       \* history: stored keys, by when their present item was put
    keyOrder,       \* history: stored keys, by when the key was put after it
                    \*   was last absent
    logs,           \* LogStream._logs
    logCalls        \* history: the calls that appended to the log stream

registry == <<app, resources, routes, middlewares>>
history == <<routeOrder, applied, declaredApp, declaredRes, declaredMw>>
\* the local state of the resource objects (mock backends) and its history
mock == <<heap, data, result, putOrder, keyOrder, logs, logCalls>>
\* the state of the declaration facade and its history
facade == <<app, resources, routes, middlewares, csc_metadata, raised,
            routeOrder, applied, declaredApp, declaredRes, declaredMw, heldAuth>>
vars == <<app, resources, routes, middlewares, csc_metadata, raised,
          routeOrder, applied, declaredApp, declaredRes, declaredMw, heldAuth,
          heap, data, result, putOrder, keyOrder, logs, logCalls>>

(* ------------------------------ dicts ---------------------------------- *)
EmptyDict == [k \in {} |-> None]

\* dict.update(e)
DictUpdate(d, e) ==
    [k \in (DOMAIN d) \cup (DOMAIN e) |-> IF k \in DOMAIN e THEN e[k] ELSE d[k]]

\* d.get("auth")
DictGetAuth(d) == IF "auth" \in DOMAIN d THEN d["auth"] ELSE NoneObj

Range(s) == { s[i] : i \in 1..Len(s) }

(* ----------------------------- registry.py ----------------------------- *)
\* mutant: the first application declared is kept
register_app_first(a) == IF app = NoneObj THEN a ELSE app

register_app(a) == a

\* mutant: setdefault, a name already taken keeps its resource
register_resource_first(res, name, resource) ==
    [n \in (DOMAIN res) \cup {name} |-> IF n \in DOMAIN res THEN res[n] ELSE resource]

register_resource(res, name, resource) ==
    [n \in (DOMAIN res) \cup {name} |-> IF n = name THEN resource ELSE res[n]]

\* mutant: the new record is inserted at the front
register_route_front(rs, route_info) == <<route_info>> \o rs

register_route(rs, route_info) == Append(rs, route_info)

\* mutant: a callable already registered is not appended again
register_middleware_dedup(mws, func) ==
    IF \E i \in 1..Len(mws) : mws[i] = func THEN mws ELSE Append(mws, func)

register_middleware(mws, func) == Append(mws, func)

(* ------------------------------- app.py -------------------------------- *)
\* mutant: a new dict at every call, whatever the callable already holds
get_or_create_metadata_new(md, func) == EmptyDict

\* _get_or_create_metadata: the dict on the callable, created empty if absent
get_or_create_metadata(md, func) ==
    IF md[func] = NoAttr THEN EmptyDict ELSE md[func]

\* route(): normalisation of method / methods
route_methods(method, methods) ==
    IF methods = NoneList
    THEN IF method \notin {None, ""} THEN <<method>> ELSE <<"GET">>
    ELSE methods

\* mutant: the first record is taken, whoever its handler is
existing_first(rs, func) == IF Len(rs) > 0 THEN 1 ELSE 0

\* mutant: only the last record is compared with func
existing_last(rs, func) ==
    IF Len(rs) > 0 /\ rs[Len(rs)].handler = func THEN Len(rs) ELSE 0

\* next((r for r in global_registry.routes if r["handler"] == func), None):
\* index of the first record of func, 0 for None
existing(rs, func) ==
    IF \E i \in 1..Len(rs) : rs[i].handler = func
    THEN CHOOSE i \in 1..Len(rs) :
            /\ rs[i].handler = func
            /\ \A j \in 1..(i - 1) : rs[j].handler # func
    ELSE 0

\* mutant: an existing record is replaced by a new one of the route attributes
route_decorator_rebuild(rs, md, func, path, methods, public) ==
    LET metadata == DictUpdate(get_or_create_metadata(md, func),
                               [path |-> path, methods |-> methods, public |-> public])
        e == existing(rs, func)
        info == [handler |-> func, path |-> path, methods |-> methods,
                 public |-> public, auth |-> NoneObj]
    IN  [md |-> [md EXCEPT ![func] = metadata],
         routes |-> IF e # 0 THEN [rs EXCEPT ![e] = info]
                    ELSE register_route(rs, [info EXCEPT !.auth = DictGetAuth(metadata)])]

\* mutant: a new record ignores the descriptor held in the metadata
route_decorator_noauth(rs, md, func, path, methods, public) ==
    LET metadata == DictUpdate(get_or_create_metadata(md, func),
                               [path |-> path, methods |-> methods, public |-> public])
        e == existing(rs, func)
    IN  [md |-> [md EXCEPT ![func] = metadata],
         routes |->
            IF e # 0
            THEN [rs EXCEPT ![e] = [@ EXCEPT !.path = path,
                                             !.methods = methods,
                                             !.public = public]]
            ELSE register_route(rs, [handler |-> func,
                                     path |-> path,
                                     methods |-> methods,
                                     public |-> public,
                                     auth |-> NoneObj])]

\* mutant: a record is appended whether or not one exists
route_decorator_append(rs, md, func, path, methods, public) ==
    LET metadata == DictUpdate(get_or_create_metadata(md, func),
                               [path |-> path, methods |-> methods, public |-> public])
    IN  [md |-> [md EXCEPT ![func] = metadata],
         routes |-> register_route(rs, [handler |-> func,
                                        path |-> path,
                                        methods |-> methods,
                                        public |-> public,
                                        auth |-> DictGetAuth(metadata)])]

\* route.decorator on the pair (routes, metadata)
route_decorator(rs, md, func, path, methods, public) ==
    LET metadata == DictUpdate(get_or_create_metadata(md, func),
                               [path |-> path, methods |-> methods, public |-> public])
        e == existing(rs, func)
    IN  [md |-> [md EXCEPT ![func] = metadata],
         routes |->
            IF e # 0
            THEN [rs EXCEPT ![e] = [@ EXCEPT !.path = path,
                                             !.methods = methods,
                                             !.public = public]]
            ELSE register_route(rs, [handler |-> func,
                                     path |-> path,
                                     methods |-> methods,
                                     public |-> public,
                                     auth |-> DictGetAuth(metadata)])]

\* auth(): normalisation of scopes
auth_scopes(scopes) == IF scopes = NoneList THEN <<>> ELSE scopes

\* mutant: the descriptor goes to the metadata only, not to an existing record
auth_decorator_meta(rs, md, func, resource, cognito, scopes) ==
    LET auth_info == [resource |-> resource, cognito |-> cognito, scopes |-> scopes]
        metadata == DictUpdate(get_or_create_metadata(md, func), [auth |-> auth_info])
    IN  [md |-> [md EXCEPT ![func] = metadata], routes |-> rs]

\* auth.decorator on the pair (routes, metadata)
auth_decorator(rs, md, func, resource, cognito, scopes) ==
    LET auth_info == [resource |-> resource, cognito |-> cognito, scopes |-> scopes]
        metadata == DictUpdate(get_or_create_metadata(md, func), [auth |-> auth_info])
        e == existing(rs, func)
    IN  [md |-> [md EXCEPT ![func] = metadata],
         routes |-> IF e # 0 THEN [rs EXCEPT ![e].auth = auth_info] ELSE rs]

\* a parameter's default
Default(arg, default) == IF arg = Missing THEN default ELSE arg

\* App.__init__: the attributes of the new object
AppObject(name, stage, region) ==
    [name |-> name,
     stage |-> Default(stage, "dev"),
     region |-> Default(region, "us-east-1")]

(* ----------------------------- resources.py ---------------------------- *)
\* Table.__init__, LogStream.__init__, Cognito.__init__: the new object
ResourceObject(class, name, option) ==
    CASE class = "Table" ->
            [class |-> class, name |-> name, partition_key |-> Default(option, "id")]
      [] class = "LogStream" ->
            [class |-> class, name |-> name, retention |-> Default(option, "7d")]
      [] class = "Cognito" ->
            [class |-> class, name |-> name, password_policy |-> Default(option, "strong")]

\* the objects of the caller, as they are before any call: dicts, an instance
\* of a class with an attribute pk, and an int
InitialHeap ==
    [o \in {"A", "B", "U", "E", "N", "X", "S"} |->
        CASE o = "A" -> [type |-> "dict", fields |-> [pk |-> "1", name |-> "Alice"]]
          [] o = "B" -> [type |-> "dict", fields |-> [pk |-> "2"]]
          [] o = "U" -> [type |-> "dict", fields |-> [name |-> "Bob"]]
          [] o = "E" -> [type |-> "dict", fields |-> [pk |-> ""]]
          [] o = "N" -> [type |-> "dict", fields |-> [pk |-> None]]
          [] o = "X" -> [type |-> "object", fields |-> [pk |-> "2"]]
          [] o = "S" -> [type |-> "int", fields |-> EmptyDict]]

NoCall == [call |-> "none", arg |-> None, value |-> None]

(* ------------------------------ history -------------------------------- *)
\* the decoration log of a callable keeps its first MaxLog kinds, then "..."
Logged(log, kind) ==
    IF Len(log) < MaxLog THEN Append(log, kind)
    ELSE IF Len(log) = MaxLog THEN Append(log, "...")
    ELSE log

(* ------------------------------ actions -------------------------------- *)
Init ==
    /\ app = NoneObj
    /\ resources = EmptyDict
    /\ routes = <<>>
    /\ middlewares = <<>>
    /\ csc_metadata = [f \in Funcs |-> NoAttr]
    /\ raised = None
    /\ routeOrder = <<>>
    /\ applied = [f \in Funcs |-> <<>>]
    /\ declaredApp = NoneObj
    /\ declaredRes = EmptyDict
    /\ declaredMw = <<>>
    /\ heldAuth = [f \in Funcs |-> NoneObj]
    /\ heap = InitialHeap
    /\ data = <<>>
    /\ result = NoCall
    /\ putOrder = <<>>
    /\ keyOrder = <<>>
    /\ logs = <<>>
    /\ logCalls = <<>>

\* @route(path, method=..., methods=..., public=...) applied to func
Route(func, path, method, methods, public) ==
    LET r == route_decorator(routes, csc_metadata, func, path,
                             route_methods(method, methods), public)
    IN  /\ routes' = r.routes
        /\ csc_metadata' = r.md
        /\ raised' = None
        /\ routeOrder' = IF func \in Range(routeOrder) THEN routeOrder
                         ELSE Append(routeOrder, func)
        /\ UNCHANGED <<mock, heldAuth, app, resources, middlewares, declaredApp, declaredRes, declaredMw>>

\* @auth(resource=..., cognito=..., scopes=...) applied to func
Auth(func, resource, cognito, scopes) ==
    LET r == auth_decorator(routes, csc_metadata, func, resource, cognito,
                            auth_scopes(scopes))
    IN  /\ routes' = r.routes
        /\ csc_metadata' = r.md
        /\ raised' = None
        /\ heldAuth' = [heldAuth EXCEPT ![func] =
                [resource |-> resource, cognito |-> cognito,
                 scopes |-> IF scopes = NoneList THEN <<>> ELSE scopes]]
        /\ UNCHANGED <<mock, app, resources, middlewares, routeOrder,
                       declaredApp, declaredRes, declaredMw>>

\* global_registry.clear()
Clear ==
    /\ app' = NoneObj
    /\ resources' = EmptyDict
    /\ routes' = <<>>
    /\ middlewares' = <<>>
    /\ raised' = None
    /\ routeOrder' = <<>>
    /\ applied' = [f \in Funcs |-> <<>>]
    /\ declaredApp' = NoneObj
    /\ declaredRes' = EmptyDict
    /\ declaredMw' = <<>>
    /\ UNCHANGED <<mock, heldAuth, csc_metadata>>

\* App(name, stage=..., region=...)
App(name, stage, region) ==
    IF name = Missing
    THEN \* TypeError: missing required argument 'name'
         /\ raised' = "TypeError"
         /\ UNCHANGED <<mock, heldAuth, app, resources, routes, middlewares, csc_metadata,
                        routeOrder, applied, declaredApp, declaredRes, declaredMw>>
    ELSE /\ app' = register_app(AppObject(name, stage, region))
         /\ raised' = None
         /\ declaredApp' = [name |-> name, stage |-> stage, region |-> region,
                             before |-> IF declaredApp = NoneObj THEN Missing
                                        ELSE declaredApp.name]
         /\ UNCHANGED <<mock, heldAuth, resources, routes, middlewares, csc_metadata,
                        routeOrder, applied, declaredRes, declaredMw>>

\* Table(name, ...), LogStream(name, ...), Cognito(name, ...)
Declare(class, name, option) ==
    IF name = Missing
    THEN \* TypeError: missing required argument 'name'
         /\ raised' = "TypeError"
         /\ UNCHANGED <<mock, heldAuth, app, resources, routes, middlewares, csc_metadata,
                        routeOrder, applied, declaredApp, declaredRes, declaredMw>>
    ELSE /\ resources' = register_resource(resources, name,
                                           ResourceObject(class, name, option))
         /\ raised' = None
         /\ declaredRes' = DictUpdate(declaredRes,
                [n \in {name} |->
                    [class |-> class, name |-> name, option |-> option,
                     before |-> IF name \in DOMAIN declaredRes
                                THEN declaredRes[name].class ELSE Missing]])
         /\ UNCHANGED <<mock, heldAuth, app, routes, middlewares, csc_metadata,
                        routeOrder, applied, declaredApp, declaredMw>>

\* @middleware applied to func
Middleware(func) ==
    /\ Len(middlewares) < MaxMiddlewares
    /\ middlewares' = register_middleware(middlewares, func)
    /\ raised' = None
    /\ declaredMw' = Append(declaredMw, func)
    /\ UNCHANGED <<mock, heldAuth, app, resources, routes, csc_metadata,
                   routeOrder, applied, declaredApp, declaredRes>>

(* --------------------------- specifications ---------------------------- *)
\* Spec: every operation of the facade
DoRoute ==
    \E func \in Funcs, ra \in RouteArgs :
        /\ Route(func, ra[1], ra[2], ra[3], ra[4])
        /\ UNCHANGED applied

DoAuth ==
    \E func \in Funcs, aa \in AuthArgs :
        /\ Auth(func, aa[1], aa[2], aa[3])
        /\ UNCHANGED applied

DoApp == \E a \in OneApp : App(a[1], a[2], a[3])

DoDeclare == \E r \in OneResource : Declare(r[1], r[2], r[3])

DoMiddleware == \E func \in OneFunc : Middleware(func)

Next ==
    \/ DoRoute
    \/ DoAuth
    \/ DoApp
    \/ DoDeclare
    \/ DoMiddleware
    \/ Clear

Spec == Init /\ [][Next]_vars

\* SpecMerge: the decorators alone, with the log of what each callable received
LogRoute ==
    \E func \in Funcs, ra \in RouteArgs :
        /\ Route(func, ra[1], ra[2], ra[3], ra[4])
        /\ applied' = [applied EXCEPT ![func] = Logged(@, "route")]

LogAuth ==
    \E func \in Funcs, aa \in AuthArgs :
        /\ Auth(func, aa[1], aa[2], aa[3])
        /\ applied' = [applied EXCEPT ![func] = Logged(@, "auth")]

NextMerge ==
    \/ LogRoute
    \/ LogAuth
    \/ Clear

SpecMerge == Init /\ [][NextMerge]_vars

\* SpecDecl: the application, the resources and the middlewares
AnyApp == \E a \in AppArgs : App(a[1], a[2], a[3])

AnyDeclare == \E r \in ResourceArgs : Declare(r[1], r[2], r[3])

AnyMiddleware == \E func \in Funcs : Middleware(func)

NextDecl ==
    \/ AnyApp
    \/ AnyDeclare
    \/ AnyMiddleware
    \/ Clear

SpecDecl == Init /\ [][NextDecl]_vars
(* ------------------------- resources.py: Table -------------------------- *)
\* the table is Table(name=..., partition_key="pk")
PartitionKey == "pk"

\* the ids the caller passes to get, update and delete
Ids == {"1", "2", "", "3"}

\* the objects the caller passes to update as data: a dict of one field, a
\* dict that holds a partition key, and an object that is no dict
UpdateData == {"U", "B", "X"}

\* an insertion-ordered dict is the sequence of its <<key, value>> pairs
Keys(d) == { d[i][1] : i \in 1..Len(d) }

IndexOf(d, k) == CHOOSE i \in 1..Len(d) : d[i][1] = k

\* d.get(k)
OrderedGet(d, k) == IF k \in Keys(d) THEN d[IndexOf(d, k)][2] ELSE None

\* d[k] = v: a key already there keeps its place
OrderedSet(d, k, v) ==
    IF k \in Keys(d) THEN [d EXCEPT ![IndexOf(d, k)] = <<k, v>>]
    ELSE Append(d, <<k, v>>)

\* del d[k]
OrderedDel(d, k) ==
    LET Keep(p) == p[1] # k IN SelectSeq(d, Keep)

\* item.get(name) of a dict, getattr(item, name, None) of another object
FieldOf(obj, name) ==
    IF name \in DOMAIN obj.fields THEN obj.fields[name] ELSE None

\* Table.get
Table_get(dt, id) == OrderedGet(dt, id)

\* mutant: setdefault, a key already stored keeps its item
Table_put_first(h, dt, item) ==
    LET id_val == FieldOf(h[item], PartitionKey)
    IN  IF id_val # None /\ id_val \notin Keys(dt) THEN Append(dt, <<id_val, item>>)
        ELSE dt

\* mutant: a key put again moves to the end
Table_put_moves(h, dt, item) ==
    LET id_val == FieldOf(h[item], PartitionKey)
    IN  IF id_val # None THEN Append(OrderedDel(dt, id_val), <<id_val, item>>)
        ELSE dt

\* mutant: the item is stored whether or not it has a partition-key value
Table_put_always(h, dt, item) ==
    OrderedSet(dt, FieldOf(h[item], PartitionKey), item)

\* Table.put: the new _data
Table_put(h, dt, item) ==
    IF h[item].type = "dict"
    THEN LET id_val == FieldOf(h[item], PartitionKey)
         IN  IF id_val # None THEN OrderedSet(dt, id_val, item) ELSE dt
    ELSE LET id_val == FieldOf(h[item], PartitionKey)
         IN  IF id_val # None THEN OrderedSet(dt, id_val, item) ELSE dt

\* Table.scan
Table_scan(dt) == [i \in 1..Len(dt) |-> dt[i][2]]

\* Table.update: the new objects and the new _data
Table_update(h, dt, id, d) ==
    IF id \in Keys(dt)
    THEN LET cur == OrderedGet(dt, id)
         IN  IF h[cur].type = "dict" /\ h[d].type = "dict"
             THEN [heap |-> [h EXCEPT ![cur].fields = DictUpdate(@, h[d].fields)],
                   data |-> dt]
             ELSE [heap |-> h, data |-> OrderedSet(dt, id, d)]
    ELSE [heap |-> h, data |-> dt]

\* Table.delete
Table_delete(dt, id) == IF id \in Keys(dt) THEN OrderedDel(dt, id) ELSE dt

\* a sequence without the element k
Without(seq, k) == LET Keep(x) == x # k IN SelectSeq(seq, Keep)

\* table.put(item)
Put(item) ==
    LET k == FieldOf(heap[item], PartitionKey)
    IN  /\ data' = Table_put(heap, data, item)
        /\ result' = [call |-> "put", arg |-> item, value |-> None]
        /\ putOrder' = IF k # None THEN Append(Without(putOrder, k), k) ELSE putOrder
        /\ keyOrder' = IF k # None /\ k \notin Range(keyOrder)
                        THEN Append(keyOrder, k) ELSE keyOrder
        /\ UNCHANGED <<facade, heap, logs, logCalls>>

\* table.get(id)
Get(id) ==
    /\ result' = [call |-> "get", arg |-> id, value |-> Table_get(data, id)]
    /\ UNCHANGED <<facade, heap, data, putOrder, keyOrder, logs, logCalls>>

\* table.scan()
Scan ==
    /\ result' = [call |-> "scan", arg |-> None, value |-> Table_scan(data)]
    /\ UNCHANGED <<facade, heap, data, putOrder, keyOrder, logs, logCalls>>

\* table.update(id, d)
Update(id, d) ==
    LET u == Table_update(heap, data, id, d)
    IN  /\ heap' = u.heap
        /\ data' = u.data
        /\ result' = [call |-> "update", arg |-> id, value |-> None]
        /\ UNCHANGED <<facade, putOrder, keyOrder, logs, logCalls>>

\* table.delete(id)
Delete(id) ==
    /\ data' = Table_delete(data, id)
    /\ result' = [call |-> "delete", arg |-> id, value |-> None]
    /\ putOrder' = Without(putOrder, id)
    /\ keyOrder' = Without(keyOrder, id)
    /\ UNCHANGED <<facade, heap, logs, logCalls>>

\* SpecTable: the calls on one table
AnyPut == \E item \in DOMAIN InitialHeap : Put(item)

AnyGet == \E id \in Ids : Get(id)

AnyUpdate == \E id \in Ids \ {""}, d \in UpdateData : Update(id, d)

AnyDelete == \E id \in Ids : Delete(id)

NextTable ==
    \/ AnyPut
    \/ AnyGet
    \/ Scan
    \/ AnyUpdate
    \/ AnyDelete

SpecTable == Init /\ [][NextTable]_vars

(* ----------------------- resources.py: LogStream ------------------------ *)
\* the messages and the keyword arguments the caller passes to info and audit
Messages == {"test message", "sensitive action"}

ExtraFields == { EmptyDict, [user |-> "admin"], [level |-> "DEBUG"], [message |-> "x"] }

\* {"level": level, "message": message, **kwargs}: a later key wins
LogEntry(level, message, kwargs) ==
    DictUpdate([level |-> level, message |-> message], kwargs)

\* logs.info(message, **kwargs) and logs.audit(message, **kwargs)
LogCall(call, level, message, kwargs) ==
    IF "message" \in DOMAIN kwargs
    THEN \* TypeError: got multiple values for argument 'message'
         /\ raised' = "TypeError"
         /\ UNCHANGED <<app, resources, routes, middlewares, csc_metadata,
                        routeOrder, applied, declaredApp, declaredRes, declaredMw,
                        heldAuth, heap, data, result, putOrder, keyOrder,
                        logs, logCalls>>
    ELSE /\ Len(logs) < MaxEntries
         /\ logs' = Append(logs, LogEntry(level, message, kwargs))
         /\ raised' = None
         /\ logCalls' = Append(logCalls,
                [call |-> call, message |-> message, kwargs |-> kwargs])
         /\ UNCHANGED <<app, resources, routes, middlewares, csc_metadata,
                        routeOrder, applied, declaredApp, declaredRes, declaredMw,
                        heldAuth, heap, data, result, putOrder, keyOrder>>

Info(message, kwargs) == LogCall("info", "INFO", message, kwargs)

Audit(message, kwargs) == LogCall("audit", "AUDIT", message, kwargs)

\* logs.write(entry)
Write(entry) ==
    /\ Len(logs) < MaxEntries
    /\ logs' = Append(logs, [level |-> "WRITE", entry |-> entry])
    /\ raised' = None
    /\ logCalls' = Append(logCalls,
            [call |-> "write", message |-> entry, kwargs |-> EmptyDict])
    /\ UNCHANGED <<app, resources, routes, middlewares, csc_metadata,
                   routeOrder, applied, declaredApp, declaredRes, declaredMw,
                   heldAuth, heap, data, result, putOrder, keyOrder>>

\* SpecLog: the calls on one log stream
AnyInfo == \E message \in Messages, kwargs \in ExtraFields : Info(message, kwargs)

AnyAudit == \E message \in Messages, kwargs \in ExtraFields : Audit(message, kwargs)

AnyWrite == \E entry \in Messages : Write(entry)

NextLog ==
    \/ AnyInfo
    \/ AnyAudit
    \/ AnyWrite

SpecLog == Init /\ [][NextLog]_vars

(* ------------------------------- claims -------------------------------- *)
\* the indices of the Route records of func
RouteRecords(rs, func) == { i \in 1..Len(rs) : rs[i].handler = func }

\* the handlers of the route sequence, in order
Handlers(rs) == [i \in 1..Len(rs) |-> rs[i].handler]

\* the routes after route(ra) then auth(aa) on func, from the current state
RouteThenAuth(func, ra, aa) ==
    LET r == route_decorator(routes, csc_metadata, func, ra[1],
                             route_methods(ra[2], ra[3]), ra[4])
    IN  auth_decorator(r.routes, r.md, func, aa[1], aa[2], auth_scopes(aa[3])).routes

\* the routes after auth(aa) then route(ra) on func, from the current state
AuthThenRoute(func, ra, aa) ==
    LET r == auth_decorator(routes, csc_metadata, func, aa[1], aa[2], auth_scopes(aa[3]))
    IN  route_decorator(r.routes, r.md, func, ra[1],
                        route_methods(ra[2], ra[3]), ra[4]).routes

\* C1: from any reachable state with no Route record for a callable, route
\* then auth and auth then route on it both leave exactly one record for it,
\* and the two records agree on path, methods, public and auth.
C1_OrderIndependence ==
    \A func \in Funcs, ra \in RouteArgs, aa \in AuthArgs :
        existing(routes, func) = 0 =>
            LET x == RouteThenAuth(func, ra, aa)
                y == AuthThenRoute(func, ra, aa)
            IN  /\ Cardinality(RouteRecords(x, func)) = 1
                /\ Cardinality(RouteRecords(y, func)) = 1
                /\ LET rx == x[existing(x, func)]
                       ry == y[existing(y, func)]
                   IN  /\ rx.path = ry.path
                       /\ rx.methods = ry.methods
                       /\ rx.public = ry.public
                       /\ rx.auth = ry.auth

\* f received route then auth, g received auth then route, and their records
\* carry the same attributes and the same descriptor
C1_Witness ==
    /\ applied["f"] = <<"route", "auth">>
    /\ applied["g"] = <<"auth", "route">>
    /\ Len(routes) = 2
    /\ LET rf == routes[existing(routes, "f")]
           rg == routes[existing(routes, "g")]
       IN  /\ rf.path = rg.path /\ rf.methods = rg.methods /\ rf.public = rg.public
           /\ rf.auth = rg.auth
           /\ rf.auth # NoneObj

\* C2: a route declaration on a callable that was already route-decorated
\* leaves exactly one record for it, with the attributes of this declaration.
C2_RedeclareLastWins ==
    [][\A func \in Funcs, ra \in RouteArgs :
          (/\ "route" \in Range(applied[func])
           /\ Route(func, ra[1], ra[2], ra[3], ra[4]))
          => /\ Cardinality(RouteRecords(routes', func)) = 1
             /\ LET r == routes'[existing(routes', func)]
                IN  /\ r.path = ra[1]
                    /\ r.methods = route_methods(ra[2], ra[3])
                    /\ r.public = ra[4]]_vars

\* f was route-decorated exactly twice and has one record, of the second path
C2_Witness ==
    /\ applied["f"] = <<"route", "route">>
    /\ Len(routes) = 1
    /\ routes[1].handler = "f"
    /\ routes[1].path = "/b"
    /\ routes[1].methods = <<"POST">>

\* C3: the route sequence holds exactly one record for every callable
\* route-decorated since the last clear and none for any other callable.
C3_ExactlyOnce ==
    \A func \in Funcs :
        Cardinality(RouteRecords(routes, func)) =
            IF func \in Range(routeOrder) THEN 1 ELSE 0

\* both callables are routes, among an application, a resource and a middleware
C3_Witness ==
    /\ routeOrder = <<"g", "f">>
    /\ Len(routes) = 2
    /\ routes[2].auth # NoneObj
    /\ app # NoneObj
    /\ DOMAIN resources # {}
    /\ middlewares # <<>>

\* C4: a callable that received only route since the last clear has a record
\* with no authorization descriptor (whatever it received before the clear),
\* and a clear leaves every collection empty.
C4_ResetDecouples ==
    /\ \A func \in Funcs :
          (applied[func] # <<>> /\ Range(applied[func]) = {"route"})
          => routes[existing(routes, func)].auth = NoneObj
    /\ (\A func \in Funcs : applied[func] = <<>>) => routes = <<>>

\* C5: the registry holds the application last declared since the last
\* clear, with stage and region defaulted to "dev" and "us-east-1", or none.
C5_AppLastWriteWins ==
    IF declaredApp = NoneObj
    THEN app = NoneObj
    ELSE app = [name |-> declaredApp.name,
                stage |-> IF declaredApp.stage = Missing THEN "dev"
                          ELSE declaredApp.stage,
                region |-> IF declaredApp.region = Missing THEN "us-east-1"
                           ELSE declaredApp.region]

\* App(name="test-api", region="us-west-2") was declared after application
\* "api" and is the one held, its stage defaulted
C5_Witness ==
    /\ declaredApp # NoneObj
    /\ declaredApp.before = "api"
    /\ app = [name |-> "test-api", stage |-> "dev", region |-> "us-west-2"]

\* the resource object the arguments d describe
DeclaredResource(d) ==
    [k \in {"class", "name",
             CASE d.class = "Table" -> "partition_key"
               [] d.class = "LogStream" -> "retention"
               [] d.class = "Cognito" -> "password_policy"} |->
        CASE k = "class" -> d.class
          [] k = "name" -> d.name
          [] k = "partition_key" -> IF d.option = Missing THEN "id" ELSE d.option
          [] k = "retention" -> IF d.option = Missing THEN "7d" ELSE d.option
          [] k = "password_policy" -> IF d.option = Missing THEN "strong" ELSE d.option]

\* C6: the resource map holds, under every name declared since the last
\* clear, the resource last declared under it, and nothing under any other
\* name; a declaration under one name leaves the entries of the others.
C6_ResourceLastWriteWins ==
    /\ [](/\ DOMAIN resources = DOMAIN declaredRes
          /\ \A n \in DOMAIN resources :
                /\ declaredRes[n].name = n
                /\ resources[n] = DeclaredResource(declaredRes[n]))
    /\ [][\A r \in ResourceArgs :
            Declare(r[1], r[2], r[3]) =>
                \A n \in (DOMAIN resources) \ {r[2]} :
                    n \in DOMAIN resources' /\ resources'[n] = resources[n]]_vars

\* a Cognito named "users" replaced a Table of that name, beside another name
C6_Witness ==
    /\ "users" \in DOMAIN resources
    /\ resources["users"].class = "Cognito"
    /\ declaredRes["users"].before = "Table"
    /\ "app-logs" \in DOMAIN resources
    /\ resources["app-logs"].retention = "30d"

\* C7: the handlers of the route sequence are the callables in the order of
\* their first route declaration since the last clear.
C7_DeclarationOrder == Handlers(routes) = routeOrder

\* g was declared first and f second; g was declared a second time and f
\* received auth, and the order is still g, f
C7_Witness ==
    /\ routeOrder = <<"g", "f">>
    /\ applied["g"] = <<"route", "route">>
    /\ applied["f"] = <<"route", "auth">>
    /\ Handlers(routes) = <<"g", "f">>

\* C8: the registry never holds an application with an empty or absent name
\* nor a resource keyed by an empty or absent name.
C8_NoEmptyName ==
    /\ app # NoneObj => app.name \notin {"", None}
    /\ \A n \in DOMAIN resources : n \notin {"", None}

\* C9: every Route record has a non-empty method list.
C9_MethodsNonEmpty ==
    \A i \in 1..Len(routes) : routes[i].methods # <<>>

\* C10: the middleware sequence is the sequence of the callables declared
\* since the last clear, one entry per declaration.
C10_MiddlewareAppends == middlewares = declaredMw

\* the same callable was registered twice and is there twice
C10_Witness == middlewares = <<"f", "f">>

\* C15: auth on a callable without a Route record leaves the registry as it
\* is; the route declaration that then creates its record gives it the last
\* descriptor declared for it since the last clear, and a callable that never
\* received auth gets a record without descriptor.
C15_AuthHeldUntilRoute ==
    [][/\ \A func \in Funcs, aa \in AuthArgs :
            (existing(routes, func) = 0 /\ Auth(func, aa[1], aa[2], aa[3]))
            => UNCHANGED <<app, resources, routes, middlewares>>
       /\ \A func \in Funcs, ra \in RouteArgs :
            (existing(routes, func) = 0 /\ Route(func, ra[1], ra[2], ra[3], ra[4]))
            => /\ Len(routes') = Len(routes) + 1
               /\ LET r == routes'[Len(routes')]
                  IN  /\ r.handler = func
                      /\ "auth" \in Range(applied[func])
                            => (r.auth = heldAuth[func] /\ r.auth # NoneObj)
                      /\ heldAuth[func] = NoneObj => r.auth = NoneObj]_vars

\* f received auth then route and its record carries that descriptor; g
\* never received auth and its record carries none
C15_Witness ==
    /\ applied["f"] = <<"auth", "route">>
    /\ applied["g"] = <<"route">>
    /\ heldAuth["g"] = NoneObj
    /\ Len(routes) = 2
    /\ routes[existing(routes, "f")].auth =
            [resource |-> "users", cognito |-> "True", scopes |-> <<"read">>]
    /\ routes[existing(routes, "g")].auth = NoneObj

\* C16: a route declaration on a callable that has a Route record changes
\* that record's path, methods and public only: its handler and descriptor,
\* the other records, the application, resources and middlewares stay.
C16_RedeclareFrame ==
    [][\A func \in Funcs, ra \in RouteArgs :
          (existing(routes, func) # 0 /\ Route(func, ra[1], ra[2], ra[3], ra[4]))
          => LET e == existing(routes, func)
             IN  /\ Len(routes') = Len(routes)
                 /\ \A i \in 1..Len(routes) : i # e => routes'[i] = routes[i]
                 /\ routes'[e].handler = func
                 /\ routes'[e].auth = routes[e].auth
                 /\ routes'[e] = [routes[e] EXCEPT !.path = ra[1],
                                      !.methods = route_methods(ra[2], ra[3]),
                                      !.public = ra[4]]
                 /\ UNCHANGED <<app, resources, middlewares>>]_vars

\* f was route-decorated twice; its record still carries a descriptor and
\* the record of g is beside it
C16_Witness ==
    /\ applied["f"] = <<"route", "route">>
    /\ Len(routes) = 2
    /\ routes[existing(routes, "f")].auth # NoneObj
    /\ routes[existing(routes, "f")].path = "/b"
    /\ routes[existing(routes, "g")].path = "/a"

\* C17: a route or auth decoration of one callable leaves the records of
\* every other callable as they are, whatever their paths, and a callable
\* without a record gets a new one even if its attributes are another's.
C17_IdentityLookup ==
    [][\A func \in Funcs :
          ((\E ra \in RouteArgs : Route(func, ra[1], ra[2], ra[3], ra[4]))
           \/ (\E aa \in AuthArgs : Auth(func, aa[1], aa[2], aa[3])))
          => /\ \A i \in 1..Len(routes) :
                    routes[i].handler # func
                    => (i <= Len(routes') /\ routes'[i] = routes[i])
             /\ \A g \in Funcs \ {func} :
                    RouteRecords(routes', g) = RouteRecords(routes, g)
             /\ (existing(routes, func) = 0
                 /\ \E ra \in RouteArgs : Route(func, ra[1], ra[2], ra[3], ra[4]))
                   => /\ Len(routes') = Len(routes) + 1
                      /\ routes'[Len(routes')].handler = func]_vars

\* two callables declared with the same path, methods and public have a
\* record each, and the descriptor of one is not on the other
C17_Witness ==
    /\ Len(routes) = 2
    /\ routes[1].handler # routes[2].handler
    /\ routes[1].path = routes[2].path
    /\ routes[1].methods = routes[2].methods
    /\ routes[1].public = routes[2].public
    /\ routes[1].auth # NoneObj
    /\ routes[2].auth = NoneObj

\* C19: every Route record has the path, methods, public and descriptor of
\* the metadata held on its handler, and its descriptor is the last one that
\* its handler received.
C19_RecordAgreesWithMetadata ==
    \A i \in 1..Len(routes) :
        LET r == routes[i]
            m == csc_metadata[r.handler]
        IN  /\ m # NoAttr
            /\ {"path", "methods", "public"} \subseteq DOMAIN m
            /\ m["path"] = r.path
            /\ m["methods"] = r.methods
            /\ m["public"] = r.public
            /\ DictGetAuth(m) = r.auth
            /\ r.auth = heldAuth[r.handler]

\* f received route then an auth, which its record and its metadata show
C19_Witness ==
    /\ applied["f"] = <<"route", "auth">>
    /\ Len(routes) = 1
    /\ routes[1].auth = [resource |-> None, cognito |-> None, scopes |-> <<>>]
    /\ csc_metadata["f"]["auth"] = routes[1].auth

\* C11: a put of an item with a non-empty partition-key value k makes get(k)
\* return that item, unchanged, whatever was stored under k; after delete(k),
\* get(k) returns None; get of a key that is not stored returns None.
C11_RoundTrip ==
    [][/\ \A item \in DOMAIN heap :
            (FieldOf(heap[item], PartitionKey) \notin {None, ""} /\ Put(item))
            => /\ Table_get(data', FieldOf(heap[item], PartitionKey)) = item
               /\ heap'[item] = heap[item]
       /\ \A id \in Ids : Delete(id) => Table_get(data', id) = None
       /\ \A id \in Ids :
            Get(id) => result'.value = IF id \in Range(keyOrder)
                                       THEN Table_get(data, id) ELSE None
       /\ \A id \in Ids :
            (Get(id) /\ result.call = "put" /\ data # <<>>
             /\ id = FieldOf(heap[result.arg], PartitionKey))
            => result'.value = result.arg]_vars

\* after put of X, whose key is "2", get("2") returned X
C11_Witness ==
    /\ result = [call |-> "get", arg |-> "2", value |-> "X"]
    /\ heap["X"] = InitialHeap["X"]
    /\ Len(data) = 2

\* C12: update(id, d) of a stored id merges the fields of d into the stored
\* item when both are dicts and stores d otherwise; an id that is not stored
\* changes nothing; the items of all other keys are as they were.
C12_UpdateSemantics ==
    [][\A id \in Ids, d \in UpdateData :
          Update(id, d) =>
            /\ Keys(data') = Keys(data)
            /\ id \notin Keys(data) => (data' = data /\ heap' = heap)
            /\ id \in Keys(data) =>
                  LET cur == Table_get(data, id)
                      new == Table_get(data', id)
                  IN  IF heap[cur].type = "dict" /\ heap[d].type = "dict"
                      THEN /\ heap'[new].type = "dict"
                           /\ heap'[new].fields =
                                  DictUpdate(heap[cur].fields, heap[d].fields)
                      ELSE /\ new = d
                           /\ heap'[new] = heap[d]
            /\ \A k \in Keys(data) \ {id} :
                  heap'[Table_get(data', k)] = heap[Table_get(data, k)]]_vars

\* C14: every stored item has, as its partition-key value, the key it is
\* stored under.
C14_StoreKeyInvariant ==
    \A i \in 1..Len(data) :
        FieldOf(heap[data[i][2]], PartitionKey) = data[i][1]

\* C18 as stated: scan returns one item per stored key, ordered by when the
\* items were put.
C18_ScanItemOrder ==
    result.call = "scan" =>
        result.value = [i \in 1..Len(putOrder) |-> Table_get(data, putOrder[i])]

\* C18: scan returns one item per stored key, ordered by when the keys were
\* put: a key put again keeps its place, a key deleted and put again is last.
C18_ScanKeyOrder ==
    result.call = "scan" =>
        /\ Len(result.value) = Cardinality(Keys(data))
        /\ result.value = [i \in 1..Len(keyOrder) |-> Table_get(data, keyOrder[i])]

\* a scan of two items, after the first key was put again with another item
C18_Witness ==
    /\ result.call = "scan"
    /\ result.value = <<"X", "A">>
    /\ keyOrder = <<"2", "1">>
    /\ putOrder = <<"1", "2">>

\* C20 as stated: a put of an item whose partition-key value is missing,
\* None or empty leaves the store as it is.
C20_PutWithoutKeyOrEmpty ==
    [][\A item \in DOMAIN heap :
          (FieldOf(heap[item], PartitionKey) \in {None, ""} /\ Put(item))
          => (data' = data /\ heap' = heap /\ raised' = raised)]_vars

\* C20: a put of an item whose partition-key value is missing or None leaves
\* the store as it is and raises nothing.
C20_PutWithoutKey ==
    [][\A item \in DOMAIN heap :
          (FieldOf(heap[item], PartitionKey) = None /\ Put(item))
          => (data' = data /\ heap' = heap /\ raised' = raised)]_vars

\* the last call was put of the dict whose pk is None, and the two items
\* stored before are all there is
C20_Witness ==
    /\ result.call = "put"
    /\ result.arg = "N"
    /\ Table_scan(data) = <<"A", "B">>

\* the severity the claim gives to the entry of a call
Severity(call) ==
    CASE call = "info" -> "INFO" [] call = "audit" -> "AUDIT" [] call = "write" -> "WRITE"

\* C13: the log holds one entry per call of info, audit and write, in call
\* order, each with the severity of its call (INFO, AUDIT, WRITE) whatever
\* extra fields were passed, and with its message and extra fields.
C13_AppendOnlyFixedSeverity ==
    /\ Len(logs) = Len(logCalls)
    /\ \A i \in 1..Len(logs) :
          LET c == logCalls[i]
          IN  /\ logs[i]["level"] = Severity(c.call)
              /\ IF c.call = "write" THEN logs[i]["entry"] = c.message
                 ELSE logs[i]["message"] = c.message
              /\ \A k \in (DOMAIN c.kwargs) \ {"level"} : logs[i][k] = c.kwargs[k]
====
